---- MODULE Spec2Model ----
(***************************************************************************)
(* Model of the documentation tooling of the repository:                   *)
(*   scripts/generate_release_notes.py  (release notes generator)          *)
(*   scripts/check_docs_governance.py   (docs governance validator)        *)
(*                                                                         *)
(* Text representation.  A text is a sequence of lines, every line being   *)
(* terminated by a newline; the empty text is <<>>.  A line is a sequence  *)
(* of tokens (strings): a token is a maximal run of characters that the    *)
(* patterns of the scripts treat as a unit ("##", "[Unreleased]", "|",     *)
(* "a.md", a fixed phrase such as "Roadmap phase:", ...), and the token    *)
(* " " is one whitespace character between tokens.                         *)
(* Stripping, splitting, prefix tests and substring tests are computed on  *)
(* token sequences as Python computes them on characters.                  *)
(***************************************************************************)
EXTENDS Integers, Sequences, FiniteSets, TLC

VARIABLES
    fs,               \* the file system: path -> [exists, text]
    outdir,           \* whether the parent directory of --output exists
    \* ---- generate_release_notes.py main ----
    gpc,              \* position of main
    gchangelog,       \* local: changelog
    groadmap,         \* local: roadmap
    gunreleased,      \* local: unreleased
    gphase,           \* local: roadmap_phase
    gdate,            \* local: roadmap_last_updated
    gidx,             \* collect_section_items: index of the next line
    current_section,  \* collect_section_items: current_section
    items,            \* collect_section_items: items
    goutput,          \* local: output
    gprinted,         \* lines printed by main ("Error: ..." / "Generated ...")
    gresult,          \* return value of main (-1 while running)
    writes,           \* number of write_text calls performed on --output
    \* ---- check_docs_governance.py main ----
    vpc,              \* position of main
    errors,           \* local: errors
    roadmap,          \* local: roadmap
    changelog,        \* local: changelog
    roadmap_phase,    \* local: roadmap_phase
    roadmap_last_updated, \* local: roadmap_last_updated
    unreleased,       \* local: unreleased
    aligned,          \* whether validate_roadmap_alignment_block was called
    rows,             \* validate_plan_lifecycle: rows
    ridx,             \* validate_plan_lifecycle: index of the next row
    superseded_count, \* validate_plan_lifecycle: superseded_count
    vresult           \* return value of main (-1 while running)

gvars == <<gpc, gchangelog, groadmap, gunreleased, gphase, gdate, gidx,
           current_section, items, goutput, gprinted, gresult, writes>>

vvars == <<vpc, errors, roadmap, changelog, roadmap_phase, roadmap_last_updated,
           unreleased, aligned, rows, ridx, superseded_count, vresult>>

vars == <<fs, outdir, gvars, vvars>>

\* ------------------------------------------------------------------ bounds

\* longest body of the Unreleased section the generator runs are drawn from
MaxBody == 3

\* ------------------------------------------------------- token sequences

IsWs(t) == t = " "

\* the token of the backquote character
BT == "<backquote>"

RECURSIVE LStrip(_)
LStrip(s) == IF s = <<>> THEN s
             ELSE IF IsWs(Head(s)) THEN LStrip(Tail(s)) ELSE s

RECURSIVE RStrip(_)
RStrip(s) == IF s = <<>> THEN s
             ELSE IF IsWs(s[Len(s)]) THEN RStrip(SubSeq(s, 1, Len(s) - 1)) ELSE s

Strip(s) == LStrip(RStrip(s))

StartsWith(s, p) == Len(s) >= Len(p) /\ SubSeq(s, 1, Len(p)) = p

Drop(s, n) == SubSeq(s, n + 1, Len(s))

Min(S) == CHOOSE x \in S : \A y \in S : x <= y

\* tokens made of one repeated "#": their lengths
HashRuns == ("#" :> 1) @@ ("##" :> 2) @@ ("###" :> 3) @@ ("####" :> 4)

ShorterHashRun(a, b) ==
    a \in DOMAIN HashRuns /\ b \in DOMAIN HashRuns /\ HashRuns[a] <= HashRuns[b]

\* token a occurs inside token b (as a suffix, a prefix, anywhere): among the
\* tokens of the model only a run of "#" lies inside another token
TokInside(a, b) == a = b \/ ShorterHashRun(a, b)

\* "needle in line": the characters of the needle occur contiguously in the
\* line; the first and last token of the needle may lie inside a longer token
InLine(needle, line) ==
    LET n == Len(needle)
    IN  \/ n = 0
        \/ /\ n >= 1
           /\ \E k \in 0..(Len(line) - n) :
                 /\ TokInside(needle[1], line[k + 1])
                 /\ TokInside(needle[n], line[k + n])
                 /\ \A q \in 2..(n - 1) : needle[q] = line[k + q]

\* "needle in text" for a needle without newline
InText(needle, text) == \E i \in 1..Len(text) : InLine(needle, text[i])

\* token classes of the patterns
StartsWithBracket(t) == t \in {"[Unreleased]", "[1.0.0]"}       \* \[...
IsDate(t) == t \in {"2024-05-01", "2024-06-01"}                  \* \d{4}-\d{2}-\d{2}

\* ------------------------------------------------------------ file system

CHANGELOG_PATH == <<"CHANGELOG.md">>
ROADMAP_PATH == <<"docs", "project", "roadmap.md">>
OUTPUT_PATH == <<"release-notes.md">>

NoFile == [exists |-> FALSE, text |-> <<>>]
File(t) == [exists |-> TRUE, text |-> t]

Exists(path) == path \in DOMAIN fs /\ fs[path].exists

\* ---------------------------------------------------- section extraction

UnreleasedHeading == <<"##", " ", "[Unreleased]">>

\* lookahead ^## \[
IsVersionHeading(line) ==
    Len(line) >= 3 /\ line[1] = "##" /\ line[2] = " " /\ StartsWithBracket(line[3])

\* re.search(r"^## \[Unreleased\]\n(?P<body>.*?)(?=^## \[|\Z)", changelog, M|S)
UnreleasedSearch(text) ==
    LET starts == {i \in 1..Len(text) : text[i] = UnreleasedHeading}
    IN  IF starts = {} THEN [found |-> FALSE, body |-> <<>>]
        ELSE LET i == Min(starts)
                 stops == {j \in (i + 1)..Len(text) : IsVersionHeading(text[j])}
                 j == IF stops = {} THEN Len(text) + 1 ELSE Min(stops)
             IN  [found |-> TRUE, body |-> SubSeq(text, i + 1, j - 1)]

\* ------------------------------------------------------- metadata fields

NoMatch == [m |-> FALSE, val |-> <<>>]

NonBlankAfter(text, i) == {j \in (i + 1)..Len(text) : LStrip(text[j]) # <<>>}

\* prefix\s*(.+)$ tried at line i, the prefix being n tokens long; val is
\* group(1).strip().  \s* is greedy and also consumes newlines, so an empty
\* value on the line makes (.+) capture the next non-blank line; with no such
\* line \s* backtracks and (.+) captures trailing whitespace, if there is any.
AnyCaptureAt(text, i, n) ==
    LET rest == Drop(text[i], n)
        later == NonBlankAfter(text, i)
    IN  IF LStrip(rest) # <<>> THEN [m |-> TRUE, val |-> Strip(rest)]
        ELSE IF later # {} THEN [m |-> TRUE, val |-> Strip(text[Min(later)])]
        ELSE IF rest # <<>> \/ \E j \in (i + 1)..Len(text) : text[j] # <<>>
             THEN [m |-> TRUE, val |-> <<>>]
        ELSE NoMatch

\* prefix\s*(\d{4}-\d{2}-\d{2})$ tried at line i
DateCaptureAt(text, i, n) ==
    LET rest == Drop(text[i], n)
        later == NonBlankAfter(text, i)
        cand == IF LStrip(rest) # <<>> THEN LStrip(rest)
                ELSE IF later # {} THEN LStrip(text[Min(later)])
                ELSE <<>>
    IN  IF Len(cand) = 1 /\ IsDate(cand[1]) THEN [m |-> TRUE, val |-> cand]
        ELSE NoMatch

\* re.search(r"^<prefix>\s*(.+)$", text, M): the leftmost line that matches
AnySearch(text, prefix) ==
    LET hits == {i \in 1..Len(text) :
                    StartsWith(text[i], prefix) /\ AnyCaptureAt(text, i, Len(prefix)).m}
    IN  IF hits = {} THEN NoMatch ELSE AnyCaptureAt(text, Min(hits), Len(prefix))

\* re.search(r"^<prefix>\s*(\d{4}-\d{2}-\d{2})$", text, M)
DateSearch(text, prefix) ==
    LET hits == {i \in 1..Len(text) :
                    StartsWith(text[i], prefix) /\ DateCaptureAt(text, i, Len(prefix)).m}
    IN  IF hits = {} THEN NoMatch ELSE DateCaptureAt(text, Min(hits), Len(prefix))

RoadmapPhaseLabel == <<"**Current Phase:**">>
RoadmapDateLabel == <<"**Last Updated:**">>

\* ------------------------------------------- generate_release_notes.py

SECTIONS == <<"Added", "Changed", "Deprecated", "Removed", "Fixed", "Security">>

SectionNames == {SECTIONS[k] : k \in 1..Len(SECTIONS)}

\* current_section = None
None == "<None>"

EmptyItems == [s \in SectionNames |-> <<>>]

\* re.match(r"^###\s+(.+)$", line) on the rstripped line
HeadingMatch(line) == Len(line) >= 3 /\ line[1] = "###" /\ IsWs(line[2])

\* heading_match.group(1).strip()
HeadingText(line) == LStrip(Drop(line, 1))

\* heading if heading in items else None
SectionOf(heading) ==
    IF Len(heading) = 1 /\ heading[1] \in SectionNames THEN heading[1] ELSE None

\* re.match(r"^\s*-\s+", line) on the rstripped line
BulletMatch(line) ==
    LET s == LStrip(line) IN Len(s) >= 2 /\ s[1] = "-" /\ IsWs(s[2])

\* "\n".join(lines).rstrip() + "\n", as a text
JoinRStrip(lines) ==
    LET keep == {i \in 1..Len(lines) : RStrip(lines[i]) # <<>>}
    IN  IF keep = {} THEN << <<>> >>
        ELSE LET last == CHOOSE i \in keep : \A j \in keep : j <= i
             IN  [i \in 1..last |-> IF i = last THEN RStrip(lines[i]) ELSE lines[i]]

NoneLine == <<"-", " ", "None">>

SectionHeading(section) == <<"###", " ", section>>

\* SectionBlocks with the placeholder forgotten: an empty category shows its
\* heading and nothing under it
RECURSIVE SectionBlocksNoPlaceholder(_, _)
SectionBlocksNoPlaceholder(section_items, k) ==
    IF k > Len(SECTIONS) THEN <<>>
    ELSE << SectionHeading(SECTIONS[k]) >>
         \o section_items[SECTIONS[k]]
         \o << <<>> >>
         \o SectionBlocksNoPlaceholder(section_items, k + 1)

\* the body of the loop "for section in SECTIONS", for SECTIONS[k..]
RECURSIVE SectionBlocks(_, _)
SectionBlocks(section_items, k) ==
    IF k > Len(SECTIONS) THEN <<>>
    ELSE LET entries == section_items[SECTIONS[k]]
         IN  << SectionHeading(SECTIONS[k]) >>
             \o (IF entries # <<>> THEN entries ELSE << NoneLine >>)
             \o << <<>> >>
             \o SectionBlocks(section_items, k + 1)

Preamble(version, phase, last_updated) ==
    << <<"##", " ", "Milestone">>,
       <<"-", " ", "Version:", " ">> \o version,
       <<"-", " ", "Roadmap phase:", " ">> \o phase,
       <<"-", " ", "Roadmap last updated:", " ">> \o last_updated,
       <<>>,
       <<"##", " ", "Release Summary">>,
       <<"-", " ", "Notes generated from", " ", BT, "CHANGELOG.md", BT,
         " ", BT, "[Unreleased]", BT, " ", "entries.">>,
       <<"-", " ", "Sections follow Keep a Changelog categories.">>,
       <<>> >>

render_release_notes(version, phase, last_updated, section_items) ==
    JoinRStrip(Preamble(version, phase, last_updated)
               \o SectionBlocks(section_items, 1))

\* args.version
Version == <<"v0.3.0">>

\* except (FileNotFoundError, ValueError) as err: print; return 1
GenFail(msg) ==
    /\ gprinted' = Append(gprinted, msg)
    /\ gresult' = 1
    /\ gpc' = "done"

\* changelog = read_text(Path(args.changelog))
GenReadChangelog ==
    /\ gpc = "read_changelog"
    /\ IF Exists(CHANGELOG_PATH)
       THEN /\ gchangelog' = fs[CHANGELOG_PATH].text
            /\ gpc' = "read_roadmap"
            /\ UNCHANGED <<gprinted, gresult>>
       ELSE /\ GenFail("Error: Missing file: changelog")
            /\ UNCHANGED gchangelog
    /\ UNCHANGED vvars
    /\ UNCHANGED <<fs, outdir, groadmap, gunreleased, gphase, gdate, gidx,
                   current_section, items, goutput, writes>>

\* roadmap = read_text(Path(args.roadmap))
GenReadRoadmap ==
    /\ gpc = "read_roadmap"
    /\ IF Exists(ROADMAP_PATH)
       THEN /\ groadmap' = fs[ROADMAP_PATH].text
            /\ gpc' = "extract"
            /\ UNCHANGED <<gprinted, gresult>>
       ELSE /\ GenFail("Error: Missing file: roadmap")
            /\ UNCHANGED groadmap
    /\ UNCHANGED vvars
    /\ UNCHANGED <<fs, outdir, gchangelog, gunreleased, gphase, gdate, gidx,
                   current_section, items, goutput, writes>>

\* unreleased = extract_unreleased(changelog)
GenExtractUnreleased ==
    /\ gpc = "extract"
    /\ LET match == UnreleasedSearch(gchangelog)
       IN  IF match.found
           THEN /\ gunreleased' = match.body
                /\ gpc' = "parse_metadata"
                /\ UNCHANGED <<gprinted, gresult>>
           ELSE /\ GenFail("Error: CHANGELOG.md is missing a [Unreleased] section")
                /\ UNCHANGED gunreleased
    /\ UNCHANGED vvars
    /\ UNCHANGED <<fs, outdir, gchangelog, groadmap, gphase, gdate, gidx,
                   current_section, items, goutput, writes>>

\* GenParseMetadata with the raise forgotten: incomplete metadata is carried
\* on as empty values, as the validator's parse_roadmap_metadata does
GenParseMetadataNoRaise ==
    /\ gpc = "parse_metadata"
    /\ gphase' = AnySearch(groadmap, RoadmapPhaseLabel).val
    /\ gdate' = DateSearch(groadmap, RoadmapDateLabel).val
    /\ items' = EmptyItems
    /\ current_section' = None
    /\ gidx' = 1
    /\ gpc' = "collect"
    /\ UNCHANGED vvars
    /\ UNCHANGED <<fs, outdir, gchangelog, groadmap, gunreleased, goutput, gprinted,
                   gresult, writes>>

\* roadmap_phase, roadmap_last_updated = parse_roadmap_metadata(roadmap);
\* then the first statements of collect_section_items
GenParseMetadata ==
    /\ gpc = "parse_metadata"
    /\ LET phase_match == AnySearch(groadmap, RoadmapPhaseLabel)
           date_match == DateSearch(groadmap, RoadmapDateLabel)
       IN  IF ~phase_match.m \/ ~date_match.m
           THEN /\ GenFail("Error: Roadmap metadata is incomplete (Current Phase / Last Updated)")
                /\ UNCHANGED <<gphase, gdate, gidx, current_section, items>>
           ELSE /\ gphase' = phase_match.val
                /\ gdate' = date_match.val
                /\ items' = EmptyItems
                /\ current_section' = None
                /\ gidx' = 1
                /\ gpc' = "collect"
                /\ UNCHANGED <<gprinted, gresult>>
    /\ UNCHANGED vvars
    /\ UNCHANGED <<fs, outdir, gchangelog, groadmap, gunreleased, goutput, writes>>

\* one iteration of "for raw_line in unreleased.splitlines()"
GenCollectLine ==
    /\ gpc = "collect"
    /\ gidx <= Len(gunreleased)
    /\ LET line == RStrip(gunreleased[gidx])
       IN  IF HeadingMatch(line)
           THEN /\ current_section' = SectionOf(HeadingText(line))
                /\ UNCHANGED items
           ELSE IF current_section # None /\ BulletMatch(line)
           THEN /\ items' = [items EXCEPT ![current_section] = Append(@, line)]
                /\ UNCHANGED current_section
           ELSE UNCHANGED <<current_section, items>>
    /\ gidx' = gidx + 1
    /\ UNCHANGED vvars
    /\ UNCHANGED <<fs, outdir, gpc, gchangelog, groadmap, gunreleased, gphase, gdate,
                   goutput, gprinted, gresult, writes>>

\* return items; output = render_release_notes(...)
GenRender ==
    /\ gpc = "collect"
    /\ gidx > Len(gunreleased)
    /\ goutput' = render_release_notes(Version, gphase, gdate, items)
    /\ gpc' = "write"
    /\ UNCHANGED vvars
    /\ UNCHANGED <<fs, outdir, gchangelog, groadmap, gunreleased, gphase, gdate, gidx,
                   current_section, items, gprinted, gresult, writes>>

\* output_path.write_text(output); print; return 0.  write_text raises
\* FileNotFoundError when the parent directory does not exist.
GenWrite ==
    /\ gpc = "write"
    /\ IF outdir
       THEN /\ fs' = [fs EXCEPT ![OUTPUT_PATH] = File(goutput)]
            /\ writes' = writes + 1
            /\ gprinted' = Append(gprinted, "Generated release notes")
            /\ gresult' = 0
            /\ gpc' = "done"
       ELSE /\ GenFail("Error: No such file or directory")
            /\ UNCHANGED <<fs, writes>>
    /\ UNCHANGED vvars
    /\ UNCHANGED <<outdir, gchangelog, groadmap, gunreleased, gphase, gdate, gidx,
                   current_section, items, goutput>>

GenNext ==
    \/ GenReadChangelog
    \/ GenReadRoadmap
    \/ GenExtractUnreleased
    \/ GenParseMetadata
    \/ GenCollectLine
    \/ GenRender
    \/ GenWrite

\* ------------------------------------------- check_docs_governance.py

PLAN_LIFECYCLE_PATH == <<"docs", "plans", "PLAN_LIFECYCLE.md">>
RELEASE_TEMPLATE_PATH == <<"docs", "project", "RELEASE_NOTES_TEMPLATE.md">>

\* ROOT / "docs/plans"
PlansDir == <<"docs", "plans">>

LIFECYCLE_STATUSES == { <<"Active">>, <<"Superseded">>, <<"Archived">> }

REQUIRED_TEMPLATE_HEADINGS ==
    << <<"##", " ", "Milestone">>,
       <<"##", " ", "Release Summary">>,
       <<"###", " ", "Added">>,
       <<"###", " ", "Changed">>,
       <<"###", " ", "Deprecated">>,
       <<"###", " ", "Removed">>,
       <<"###", " ", "Fixed">>,
       <<"###", " ", "Security">> >>

\* an entry of errors: the message and the values formatted into it
Err(kind, a, b) == [kind |-> kind, a |-> a, b |-> b]

\* read_text: the text returned, and what it appends to errors
read_text(path) == IF Exists(path) THEN fs[path].text ELSE <<>>

ReadErrors(path) ==
    IF Exists(path) THEN <<>> ELSE << Err("Missing required file", path, <<>>) >>

\* extract_unreleased: what it appends to errors (it returns the body, or "")
ExtractErrors(text) ==
    IF UnreleasedSearch(text).found THEN <<>>
    ELSE << Err("CHANGELOG.md is missing a [Unreleased] section", <<>>, <<>>) >>

parse_roadmap_metadata(text) ==
    LET phase_match == AnySearch(text, RoadmapPhaseLabel)
        date_match == DateSearch(text, RoadmapDateLabel)
    IN  [phase |-> phase_match.val,
         date |-> date_match.val,
         errs |-> (IF ~phase_match.m
                   THEN << Err("Roadmap is missing '**Current Phase:**' metadata", <<>>, <<>>) >>
                   ELSE <<>>)
                  \o (IF ~date_match.m
                      THEN << Err("Roadmap is missing '**Last Updated:**' metadata", <<>>, <<>>) >>
                      ELSE <<>>)]

\* the link targets \.\./plans/[^)]+\.md of the model, and the file each resolves to
PlanLinks == ("../plans/a.md" :> <<"a.md">>) @@ ("../plans/gone.md" :> <<"gone.md">>)

\* the link targets in sorted() order
LinkOrder == <<"../plans/a.md", "../plans/gone.md">>

validate_roadmap_links(text) ==
    LET Dangling(rel) == /\ InText(<<"(", rel, ")">>, text)
                         /\ ~Exists(PlansDir \o PlanLinks[rel])
        missing == SelectSeq(LinkOrder, Dangling)
    IN  [k \in 1..Len(missing) |->
            Err("Roadmap link target does not exist", <<missing[k]>>, <<>>)]

AlignmentHeading == <<"###", " ", "Roadmap Alignment">>

\* lookahead ^###<space>
IsSubHeading(line) == Len(line) >= 2 /\ line[1] = "###" /\ line[2] = " "

\* re.search(r"^### Roadmap Alignment\n(?P<body>.*?)(?=^### |\Z)", unreleased, M|S)
AlignmentSearch(text) ==
    LET starts == {i \in 1..Len(text) : text[i] = AlignmentHeading}
    IN  IF starts = {} THEN [found |-> FALSE, body |-> <<>>]
        ELSE LET i == Min(starts)
                 stops == {j \in (i + 1)..Len(text) : IsSubHeading(text[j])}
                 j == IF stops = {} THEN Len(text) + 1 ELSE Min(stops)
             IN  [found |-> TRUE, body |-> SubSeq(text, i + 1, j - 1)]

BlockPhaseLabel == <<"-", " ", "Current roadmap phase:">>
BlockDateLabel == <<"-", " ", "Roadmap last updated:">>

\* validate_roadmap_alignment_block with the second mismatch test turned into
\* an elif of the first: a date mismatch is lost when the phase differs too
AlignmentBlockElif(phase, last_updated, text) ==
    LET block_match == AlignmentSearch(text)
        block == block_match.body
        phase_match == AnySearch(block, BlockPhaseLabel)
        updated_match == DateSearch(block, BlockDateLabel)
    IN  IF ~block_match.found
        THEN << Err("CHANGELOG [Unreleased] is missing '### Roadmap Alignment' block", <<>>, <<>>) >>
        ELSE (IF ~phase_match.m
              THEN << Err("Roadmap Alignment block missing '- Current roadmap phase:'", <<>>, <<>>) >>
              ELSE <<>>)
             \o (IF ~updated_match.m
                 THEN << Err("Roadmap Alignment block missing '- Roadmap last updated:'", <<>>, <<>>) >>
                 ELSE <<>>)
             \o (IF phase_match.m /\ phase_match.val # phase
                 THEN << Err("Roadmap/Changelog phase mismatch", phase, phase_match.val) >>
                 ELSE IF updated_match.m /\ updated_match.val # last_updated
                 THEN << Err("Roadmap/Changelog last-updated mismatch", last_updated,
                             updated_match.val) >>
                 ELSE <<>>)

\* what validate_roadmap_alignment_block appends to errors
validate_roadmap_alignment_block(phase, last_updated, text) ==
    LET block_match == AlignmentSearch(text)
        block == block_match.body
        phase_match == AnySearch(block, BlockPhaseLabel)
        updated_match == DateSearch(block, BlockDateLabel)
    IN  IF ~block_match.found
        THEN << Err("CHANGELOG [Unreleased] is missing '### Roadmap Alignment' block", <<>>, <<>>) >>
        ELSE (IF ~phase_match.m
              THEN << Err("Roadmap Alignment block missing '- Current roadmap phase:'", <<>>, <<>>) >>
              ELSE <<>>)
             \o (IF ~updated_match.m
                 THEN << Err("Roadmap Alignment block missing '- Roadmap last updated:'", <<>>, <<>>) >>
                 ELSE <<>>)
             \o (IF phase_match.m /\ phase_match.val # phase
                 THEN << Err("Roadmap/Changelog phase mismatch", phase, phase_match.val) >>
                 ELSE <<>>)
             \o (IF updated_match.m /\ updated_match.val # last_updated
                 THEN << Err("Roadmap/Changelog last-updated mismatch", last_updated,
                             updated_match.val) >>
                 ELSE <<>>)

\* ---- parse_table_rows

Bar == "|"

RECURSIVE LStripBars(_)
LStripBars(s) == IF s # <<>> /\ Head(s) = Bar THEN LStripBars(Tail(s)) ELSE s

RECURSIVE RStripBars(_)
RStripBars(s) ==
    IF s # <<>> /\ s[Len(s)] = Bar THEN RStripBars(SubSeq(s, 1, Len(s) - 1)) ELSE s

\* s.split("|")
RECURSIVE SplitBars(_)
SplitBars(s) ==
    LET at == {k \in 1..Len(s) : s[k] = Bar}
    IN  IF at = {} THEN << s >>
        ELSE << SubSeq(s, 1, Min(at) - 1) >> \o SplitBars(Drop(s, Min(at)))

\* [cell.strip() for cell in line.strip("|").split("|")]
Cells(line) ==
    LET parts == SplitBars(RStripBars(LStripBars(line)))
    IN  [k \in 1..Len(parts) |-> Strip(parts[k])]

\* tokens made of "-" characters only
DashTokens == {"-", "---"}

\* set(cell) == {"-"}
OnlyDashes(cell) == cell # <<>> /\ \A k \in 1..Len(cell) : cell[k] \in DashTokens

\* cells[0] == "Plan" or set(cells[0]) == {"-"}
SkippedFirstCell(cell) == cell = <<"Plan">> \/ OnlyDashes(cell)

\* whether the loop body of parse_table_rows appends a row for the line
RowKept(raw) ==
    LET line == Strip(raw)
    IN  /\ line # <<>>
        /\ line[1] = Bar
        /\ Len(Cells(line)) >= 4
        /\ ~SkippedFirstCell(Cells(line)[1])

RECURSIVE parse_table_rows(_)
parse_table_rows(markdown) ==
    IF markdown = <<>> THEN <<>>
    ELSE (IF RowKept(Head(markdown))
          THEN << SubSeq(Cells(Strip(Head(markdown))), 1, 4) >>
          ELSE <<>>)
         \o parse_table_rows(Tail(markdown))

Dash == <<"-">>

\* parse_code_path: none is TRUE for a return of None
parse_code_path(raw) ==
    LET cell == Strip(raw)
    IN  IF cell = Dash THEN [none |-> FALSE, val |-> Dash]
        ELSE IF cell # <<>> /\ cell[1] = BT /\ cell[Len(cell)] = BT
             THEN [none |-> FALSE, val |-> SubSeq(cell, 2, Len(cell) - 1)]
        ELSE [none |-> TRUE, val |-> <<>>]

\* not rel or rel == "-"
NoPath(rel) == rel.none \/ rel.val = <<>> \/ rel.val = Dash

ActiveMarker == <<"**Lifecycle:**", " ", "Active">>
SupersededMarker == <<"**Lifecycle:**", " ", "Superseded">>

\* SupersededChecks with the reference looked for only when the target is
\* missing (the last test nested under the one before it)
SupersededChecksNested(plan_rel, superseded_by_cell, plan_text) ==
    LET superseded_rel == parse_code_path(superseded_by_cell)
        marker == IF ~InText(SupersededMarker, plan_text)
                  THEN << Err("Superseded plan missing lifecycle marker", plan_rel, <<>>) >>
                  ELSE <<>>
    IN  IF NoPath(superseded_rel)
        THEN marker \o << Err("Superseded plan must define 'Superseded By' target",
                              plan_rel, <<>>) >>
        ELSE IF ~Exists(PlansDir \o superseded_rel.val)
        THEN marker
             \o << Err("Superseded target does not exist", superseded_rel.val, <<>>) >>
             \o (IF ~InText(superseded_rel.val, plan_text)
                 THEN << Err("Superseded source missing explicit target reference",
                             superseded_rel.val, plan_rel) >>
                 ELSE <<>>)
        ELSE marker

\* the statements of "if status == 'Superseded':" after the count, for a plan
\* whose file exists: what they append to errors
SupersededChecks(plan_rel, superseded_by_cell, plan_text) ==
    LET superseded_rel == parse_code_path(superseded_by_cell)
        marker == IF ~InText(SupersededMarker, plan_text)
                  THEN << Err("Superseded plan missing lifecycle marker", plan_rel, <<>>) >>
                  ELSE <<>>
    IN  IF NoPath(superseded_rel)
        THEN marker \o << Err("Superseded plan must define 'Superseded By' target",
                              plan_rel, <<>>) >>
        ELSE marker
             \o (IF ~Exists(PlansDir \o superseded_rel.val)
                 THEN << Err("Superseded target does not exist", superseded_rel.val, <<>>) >>
                 ELSE <<>>)
             \o (IF ~InText(superseded_rel.val, plan_text)
                 THEN << Err("Superseded source missing explicit target reference",
                             superseded_rel.val, plan_rel) >>
                 ELSE <<>>)

\* one iteration of "for plan_cell, status, superseded_by_cell, _notes in rows":
\* what it appends to errors and what it adds to superseded_count
RowResult(row) ==
    LET plan_cell == row[1]
        status == row[2]
        superseded_by_cell == row[3]
        plan_rel == parse_code_path(plan_cell)
        plan_path == PlansDir \o plan_rel.val
        status_errs == IF status \notin LIFECYCLE_STATUSES
                       THEN << Err("Invalid lifecycle status", status, plan_rel.val) >>
                       ELSE <<>>
    IN  IF NoPath(plan_rel)
        THEN [errs |-> << Err("Invalid plan path cell in PLAN_LIFECYCLE.md", plan_cell, <<>>) >>,
              superseded |-> 0]
        ELSE IF ~Exists(plan_path)
        THEN [errs |-> status_errs
                       \o << Err("Lifecycle entry references missing file", plan_rel.val, <<>>) >>,
              superseded |-> 0]
        ELSE IF status = <<"Superseded">>
        THEN [errs |-> status_errs
                       \o SupersededChecks(plan_rel.val, superseded_by_cell, fs[plan_path].text),
              superseded |-> 1]
        ELSE IF status = <<"Active">> /\ ~InText(ActiveMarker, fs[plan_path].text)
        THEN [errs |-> status_errs
                       \o << Err("Active plan missing lifecycle marker", plan_rel.val, <<>>) >>,
              superseded |-> 0]
        ELSE [errs |-> status_errs, superseded |-> 0]

\* validate_release_template after the read: what it appends to errors
RECURSIVE TemplateErrors(_, _)
TemplateErrors(template, k) ==
    IF k > Len(REQUIRED_TEMPLATE_HEADINGS) THEN <<>>
    ELSE (IF ~InText(REQUIRED_TEMPLATE_HEADINGS[k], template)
          THEN << Err("Release notes template missing required heading",
                      REQUIRED_TEMPLATE_HEADINGS[k], <<>>) >>
          ELSE <<>>)
         \o TemplateErrors(template, k + 1)

\* ---- main

\* roadmap = read_text(ROADMAP_PATH, errors)
VReadRoadmap ==
    /\ vpc = "read_roadmap"
    /\ roadmap' = read_text(ROADMAP_PATH)
    /\ errors' = errors \o ReadErrors(ROADMAP_PATH)
    /\ vpc' = "read_changelog"
    /\ UNCHANGED <<fs, outdir, gvars, changelog, roadmap_phase, roadmap_last_updated,
                   unreleased, aligned, rows, ridx, superseded_count, vresult>>

\* changelog = read_text(CHANGELOG_PATH, errors)
VReadChangelog ==
    /\ vpc = "read_changelog"
    /\ changelog' = read_text(CHANGELOG_PATH)
    /\ errors' = errors \o ReadErrors(CHANGELOG_PATH)
    /\ vpc' = "links"
    /\ UNCHANGED <<fs, outdir, gvars, roadmap, roadmap_phase, roadmap_last_updated,
                   unreleased, aligned, rows, ridx, superseded_count, vresult>>

\* if roadmap: validate_roadmap_links(roadmap, errors)
VLinks ==
    /\ vpc = "links"
    /\ errors' = IF roadmap # <<>> THEN errors \o validate_roadmap_links(roadmap) ELSE errors
    /\ vpc' = "metadata"
    /\ UNCHANGED <<fs, outdir, gvars, roadmap, changelog, roadmap_phase,
                   roadmap_last_updated, unreleased, aligned, rows, ridx,
                   superseded_count, vresult>>

\* if roadmap and changelog: roadmap_phase, roadmap_last_updated = parse_roadmap_metadata(...)
VMetadata ==
    /\ vpc = "metadata"
    /\ IF roadmap # <<>> /\ changelog # <<>>
       THEN LET meta == parse_roadmap_metadata(roadmap)
            IN  /\ roadmap_phase' = meta.phase
                /\ roadmap_last_updated' = meta.date
                /\ errors' = errors \o meta.errs
                /\ vpc' = "unreleased"
       ELSE /\ vpc' = "lifecycle"
            /\ UNCHANGED <<roadmap_phase, roadmap_last_updated, errors>>
    /\ UNCHANGED <<fs, outdir, gvars, roadmap, changelog, unreleased, aligned, rows, ridx,
                   superseded_count, vresult>>

\* unreleased = extract_unreleased(changelog, errors)
VUnreleased ==
    /\ vpc = "unreleased"
    /\ unreleased' = UnreleasedSearch(changelog).body
    /\ errors' = errors \o ExtractErrors(changelog)
    /\ vpc' = "alignment"
    /\ UNCHANGED <<fs, outdir, gvars, roadmap, changelog, roadmap_phase,
                   roadmap_last_updated, aligned, rows, ridx, superseded_count, vresult>>

\* if roadmap_phase and roadmap_last_updated and unreleased
AlignmentGuard(phase, last_updated, body) ==
    phase # <<>> /\ last_updated # <<>> /\ body # <<>>

\* if roadmap_phase and roadmap_last_updated and unreleased:
\*     validate_roadmap_alignment_block(...)
VAlignment ==
    /\ vpc = "alignment"
    /\ IF AlignmentGuard(roadmap_phase, roadmap_last_updated, unreleased)
       THEN /\ errors' = errors \o validate_roadmap_alignment_block(
                                       roadmap_phase, roadmap_last_updated, unreleased)
            /\ aligned' = TRUE
       ELSE UNCHANGED <<errors, aligned>>
    /\ vpc' = "lifecycle"
    /\ UNCHANGED <<fs, outdir, gvars, roadmap, changelog, roadmap_phase,
                   roadmap_last_updated, unreleased, rows, ridx, superseded_count, vresult>>

\* validate_plan_lifecycle up to "superseded_count = 0"
VLifecycleRead ==
    /\ vpc = "lifecycle"
    /\ LET lifecycle == read_text(PLAN_LIFECYCLE_PATH)
           parsed == parse_table_rows(lifecycle)
       IN  IF lifecycle = <<>>
           THEN /\ errors' = errors \o ReadErrors(PLAN_LIFECYCLE_PATH)
                /\ vpc' = "template"
                /\ UNCHANGED <<rows, ridx, superseded_count>>
           ELSE IF parsed = <<>>
           THEN /\ errors' = Append(errors,
                       Err("PLAN_LIFECYCLE.md must define at least one lifecycle row", <<>>, <<>>))
                /\ rows' = parsed
                /\ vpc' = "template"
                /\ UNCHANGED <<ridx, superseded_count>>
           ELSE /\ rows' = parsed
                /\ superseded_count' = 0
                /\ ridx' = 1
                /\ vpc' = "rows"
                /\ UNCHANGED errors
    /\ UNCHANGED <<fs, outdir, gvars, roadmap, changelog, roadmap_phase,
                   roadmap_last_updated, unreleased, aligned, vresult>>

\* VRow with "continue" written as "break" for an invalid plan path cell: the
\* rows after it are not looked at
VRowBreak ==
    /\ vpc = "rows"
    /\ ridx <= Len(rows)
    /\ LET result == RowResult(rows[ridx])
       IN  /\ errors' = errors \o result.errs
           /\ superseded_count' = superseded_count + result.superseded
    /\ ridx' = IF NoPath(parse_code_path(rows[ridx][1])) THEN Len(rows) + 1 ELSE ridx + 1
    /\ UNCHANGED <<fs, outdir, gvars, vpc, roadmap, changelog, roadmap_phase,
                   roadmap_last_updated, unreleased, aligned, rows, vresult>>

\* one iteration of the loop over rows
VRow ==
    /\ vpc = "rows"
    /\ ridx <= Len(rows)
    /\ LET result == RowResult(rows[ridx])
       IN  /\ errors' = errors \o result.errs
           /\ superseded_count' = superseded_count + result.superseded
    /\ ridx' = ridx + 1
    /\ UNCHANGED <<fs, outdir, gvars, vpc, roadmap, changelog, roadmap_phase,
                   roadmap_last_updated, unreleased, aligned, rows, vresult>>

\* if superseded_count == 0: errors.append(...)
VLifecycleEnd ==
    /\ vpc = "rows"
    /\ ridx > Len(rows)
    /\ errors' = IF superseded_count = 0
                 THEN Append(errors,
                        Err("PLAN_LIFECYCLE.md should include at least one Superseded entry",
                            <<>>, <<>>))
                 ELSE errors
    /\ vpc' = "template"
    /\ UNCHANGED <<fs, outdir, gvars, roadmap, changelog, roadmap_phase,
                   roadmap_last_updated, unreleased, aligned, rows, ridx,
                   superseded_count, vresult>>

\* validate_release_template(errors)
VTemplate ==
    /\ vpc = "template"
    /\ LET template == read_text(RELEASE_TEMPLATE_PATH)
       IN  errors' = IF template = <<>>
                     THEN errors \o ReadErrors(RELEASE_TEMPLATE_PATH)
                     ELSE errors \o TemplateErrors(template, 1)
    /\ vpc' = "report"
    /\ UNCHANGED <<fs, outdir, gvars, roadmap, changelog, roadmap_phase,
                   roadmap_last_updated, unreleased, aligned, rows, ridx,
                   superseded_count, vresult>>

\* if errors: ... return 1; return 0
VReport ==
    /\ vpc = "report"
    /\ vresult' = IF errors # <<>> THEN 1 ELSE 0
    /\ vpc' = "done"
    /\ UNCHANGED <<fs, outdir, gvars, errors, roadmap, changelog, roadmap_phase,
                   roadmap_last_updated, unreleased, aligned, rows, ridx, superseded_count>>

GovNext ==
    \/ VReadRoadmap
    \/ VReadChangelog
    \/ VLinks
    \/ VMetadata
    \/ VUnreleased
    \/ VAlignment
    \/ VLifecycleRead
    \/ VRow
    \/ VLifecycleEnd
    \/ VTemplate
    \/ VReport

\* ------------------------------------------------- inputs of the generator

RECURSIVE SeqsUpTo(_, _)
SeqsUpTo(S, n) ==
    IF n = 0 THEN { <<>> }
    ELSE LET shorter == SeqsUpTo(S, n - 1)
         IN  shorter \cup {Append(s, x) : s \in {t \in shorter : Len(t) = n - 1}, x \in S}

GenBodyLines ==
    { <<"###", " ", "Added">>,
      <<"###", " ", "Fixed">>,
      <<"###", " ", "Roadmap Alignment">>,
      <<"####", " ", "Details">>,
      <<"##", " ", "Notes">>,
      <<"-", " ", "one">>,
      <<" ", "-", " ", "two", " ">>,
      <<"-", " ", "None">>,
      <<"text">> }

OlderRelease == << <<"##", " ", "[1.0.0]">>, <<"###", " ", "Added">>, <<"-", " ", "old">> >>

GenChangelogs ==
    {<< UnreleasedHeading >> \o body \o post :
        body \in SeqsUpTo(GenBodyLines, MaxBody),
        post \in { <<>>, OlderRelease }}
    \cup { <<>>, OlderRelease, << <<"##", " ", "Unreleased">> >> \o OlderRelease,
           << <<"#", " ", "Changelog">>, UnreleasedHeading, <<"###", " ", "Added">>,
              <<"-", " ", "one">>, UnreleasedHeading, <<"-", " ", "None">> >> }

GoodRoadmap ==
    << <<"#", " ", "Roadmap">>,
       <<"**Current Phase:**", " ", "M3">>,
       <<"**Last Updated:**", " ", "2024-05-01">> >>

GenRoadmaps ==
    { GoodRoadmap,
      <<>>,
      << <<"**Current Phase:**", " ", "M3">> >>,
      << <<"**Last Updated:**", " ", "2024-05-01">> >>,
      << <<"**Current Phase:**", " ", "M3">>, <<"**Last Updated:**", " ", "2024-5-1">> >>,
      << <<"**Current Phase:**", " ", "M3">>, <<"**Last Updated:**", " ", "2024-05-01", " ">> >>,
      << <<"**Current Phase:**">>, <<"**Last Updated:**", " ", "2024-05-01">> >>,
      << <<"**Current Phase:**", " ">> >>,
      << <<"**Current Phase:**", " ", "M3">>, <<"**Last Updated:**">>, <<>>, <<"2024-06-01">> >> }

GoodChangelog ==
    << UnreleasedHeading, <<"###", " ", "Fixed">>, <<"-", " ", "one">> >> \o OlderRelease

OldOutput == File(<< <<"stale">> >>)

GenFiles(cl, rm, out) ==
    (CHANGELOG_PATH :> cl) @@ (ROADMAP_PATH :> rm) @@ (OUTPUT_PATH :> out)

\* the locals of the two mains before they are assigned
GenLocals ==
    /\ gchangelog = <<>>
    /\ groadmap = <<>>
    /\ gunreleased = <<>>
    /\ gphase = <<>>
    /\ gdate = <<>>
    /\ gidx = 0
    /\ current_section = None
    /\ items = EmptyItems
    /\ goutput = <<>>
    /\ gprinted = <<>>
    /\ gresult = -1
    /\ writes = 0

GovLocals ==
    /\ errors = <<>>
    /\ roadmap = <<>>
    /\ changelog = <<>>
    /\ roadmap_phase = <<>>
    /\ roadmap_last_updated = <<>>
    /\ unreleased = <<>>
    /\ aligned = FALSE
    /\ rows = <<>>
    /\ ridx = 0
    /\ superseded_count = 0
    /\ vresult = -1

GenInit ==
    /\ \/ \E c \in GenChangelogs :
            fs = GenFiles(File(c), File(GoodRoadmap), OldOutput)
       \/ \E c \in {NoFile, File(<<>>), File(GoodChangelog)},
             r \in {NoFile} \cup {File(t) : t \in GenRoadmaps},
             o \in {NoFile, OldOutput} :
            fs = GenFiles(c, r, o)
    /\ outdir \in {b \in BOOLEAN : fs[OUTPUT_PATH].exists => b}
    /\ gpc = "read_changelog"
    /\ GenLocals
    /\ vpc = "idle"
    /\ GovLocals


SpecGen == GenInit /\ [][GenNext]_vars

\* ------------------------------------------------- inputs of the validator

\* longest run of lines drawn after the head of the Unreleased body
MaxAlign == 3

\* most lines drawn after the header and separator of the lifecycle table
MaxRows == 2

PhaseLine(v) == BlockPhaseLabel \o <<" ", v>>
DateLine(v) == BlockDateLabel \o <<" ", v>>

AlignLines ==
    { PhaseLine("M3"),
      PhaseLine("M2"),
      BlockPhaseLabel,
      DateLine("2024-05-01"),
      DateLine("2024-06-01"),
      DateLine("2024-5-1"),
      <<"##", " ", "Notes">>,
      <<"###", " ", "Added">> }

AlignHeads ==
    { <<>>,
      << AlignmentHeading >>,
      << <<"###", " ", "Added">>, <<"-", " ", "one">>, AlignmentHeading >> }

AlignChangelogs ==
    {<< UnreleasedHeading >> \o h \o t \o OlderRelease :
        h \in AlignHeads, t \in SeqsUpTo(AlignLines, MaxAlign)}

LinkLine(rel) == <<"-", " ", "[plan]", "(", rel, ")">>

GovRoadmap ==
    << <<"#", " ", "Roadmap">>,
       <<"**Current Phase:**", " ", "M3">>,
       <<"**Last Updated:**", " ", "2024-05-01">>,
       LinkLine("../plans/a.md") >>

GovRoadmaps ==
    { GovRoadmap,
      <<>>,
      << <<"#", " ", "Roadmap">> >>,
      << <<"**Current Phase:**", " ", "M3">>, LinkLine("../plans/gone.md") >>,
      << <<"**Last Updated:**", " ", "2024-05-01">> >>,
      << <<"**Current Phase:**", " ", "M3">>, <<"**Last Updated:**", " ", "2024-5-1">> >>,
      << <<"**Current Phase:**", " ">>, <<"**Last Updated:**", " ", "2024-05-01">>, <<" ">> >>,
      << <<"**Last Updated:**", " ", "2024-06-01">>, <<"**Current Phase:**", " ", "M2", " ">>,
         LinkLine("../plans/gone.md"), LinkLine("../plans/a.md") >> }

GovChangelog ==
    << <<"#", " ", "Changelog">>,
       UnreleasedHeading,
       AlignmentHeading,
       PhaseLine("M3"),
       DateLine("2024-05-01"),
       <<"###", " ", "Fixed">>,
       <<"-", " ", "one">> >> \o OlderRelease

GovChangelogs ==
    { GovChangelog, <<>>, OlderRelease,
      << UnreleasedHeading >> \o OlderRelease,
      << UnreleasedHeading, <<"###", " ", "Added">> >> }

GoodTemplate ==
    [k \in 1..Len(REQUIRED_TEMPLATE_HEADINGS) |-> REQUIRED_TEMPLATE_HEADINGS[k]]

Code(name) == <<BT, name, BT>>

TableLine(c1, c2, c3, c4) ==
    <<Bar, " ">> \o c1 \o <<" ", Bar, " ">> \o c2 \o <<" ", Bar, " ">> \o c3
        \o <<" ", Bar, " ">> \o c4 \o <<" ", Bar>>

HeaderLine == TableLine(<<"Plan">>, <<"Status">>, <<"Superseded By">>, <<"Notes">>)

SeparatorLine == <<Bar, "---", Bar, "---", Bar, "---", Bar, "---", Bar>>

Notes == <<"note">>

TableLines ==
    { TableLine(Code("a.md"), <<"Superseded">>, Code("b.md"), Notes),
      TableLine(Code("a.md"), <<"Superseded">>, Dash, Notes),
      TableLine(Code("a.md"), <<"Superseded">>, Code("gone.md"), Notes),
      TableLine(Code("a.md"), <<"Active">>, Dash, Notes),
      TableLine(Code("b.md"), <<"Active">>, Dash, Notes),
      TableLine(Code("b.md"), <<"Archived">>, Dash, Notes),
      TableLine(Code("b.md"), <<"Draft">>, Dash, Notes),
      TableLine(Code("gone.md"), <<"Superseded">>, Code("b.md"), Notes),
      TableLine(<<"a.md">>, <<"Active">>, Dash, Notes),
      TableLine(Dash, <<"Active">>, Dash, Notes),
      <<Bar, " ">> \o Code("a.md") \o <<" ", Bar, " ", "Active", " ", Bar, " ", "-", " ", Bar>>,
      HeaderLine,
      SeparatorLine,
      <<"Registry of plans">> }

Lifecycles ==
    {<< HeaderLine, SeparatorLine >> \o t : t \in SeqsUpTo(TableLines, MaxRows)}

GoodLifecycle ==
    << HeaderLine, SeparatorLine,
       TableLine(Code("a.md"), <<"Superseded">>, Code("b.md"), Notes) >>

\* texts of the plan files a.md and b.md
PlanTexts ==
    LET title == <<"#", " ", "Plan">>
        refB == <<"Superseded by", " ", "b.md">>
        refA == <<"Supersedes", " ", "a.md">>
    IN  { << << title, SupersededMarker, refB >>, << title, ActiveMarker >> >>,
          << << title, SupersededMarker, refB >>, << title, ActiveMarker, refA >> >>,
          << << title, SupersededMarker >>, << title, ActiveMarker, refA >> >>,
          << << title, SupersededMarker >>, << title >> >>,
          << << title, refB >>, << title, ActiveMarker, refA >> >>,
          << << title, ActiveMarker >>, << title, ActiveMarker >> >>,
          << << title >>, << title, ActiveMarker >> >> }

GoodPlans == << << <<"#", " ", "Plan">>, SupersededMarker, <<"Superseded by", " ", "b.md">> >>,
                << <<"#", " ", "Plan">>, ActiveMarker >> >>

\* the release-notes template: absent, empty, short of headings, complete
TemplateFiles ==
    { NoFile, File(<<>>), File(GoodTemplate),
      File(SubSeq(GoodTemplate, 1, Len(GoodTemplate) - 1)),
      File(<< <<"#", " ", "Release Notes">> >>) }

\* the lifecycle registry: absent, empty, prose only, complete
RegistryFiles ==
    { NoFile, File(<<>>), File(GoodLifecycle), File(<< <<"Registry of plans">> >>) }

GovFiles(rm, cl, lifecycle, template, plans) ==
    (ROADMAP_PATH :> rm) @@ (CHANGELOG_PATH :> cl)
    @@ (PLAN_LIFECYCLE_PATH :> lifecycle) @@ (RELEASE_TEMPLATE_PATH :> template)
    @@ (<<"docs", "plans", "a.md">> :> File(plans[1]))
    @@ (<<"docs", "plans", "b.md">> :> File(plans[2]))

GovInit ==
    /\ \/ \E c \in AlignChangelogs :
            fs = GovFiles(File(GovRoadmap), File(c), File(GoodLifecycle),
                          File(GoodTemplate), GoodPlans)
       \/ \E r \in {NoFile} \cup {File(t) : t \in GovRoadmaps},
             c \in {NoFile} \cup {File(t) : t \in GovChangelogs} :
            fs = GovFiles(r, c, File(GoodLifecycle), File(GoodTemplate), GoodPlans)
       \/ \E l \in Lifecycles, p \in PlanTexts :
            fs = GovFiles(File(GovRoadmap), File(GovChangelog), File(l),
                          File(GoodTemplate), p)
       \/ \E l \in RegistryFiles, t \in TemplateFiles :
            fs = GovFiles(File(GovRoadmap), File(GovChangelog), l, t, GoodPlans)
    /\ outdir = TRUE
    /\ gpc = "idle"
    /\ GenLocals
    /\ vpc = "read_roadmap"
    /\ GovLocals

SpecGov == GovInit /\ [][GovNext]_vars

\* ------------------------------------------------------------ properties

OfKind(errs, kinds) == LET Keep(e) == e.kind \in kinds IN SelectSeq(errs, Keep)

Count(errs, kind) == Len(OfKind(errs, {kind}))

\* every precondition of the generator holds in the files it is given
GenPreconditions ==
    /\ fs[CHANGELOG_PATH].exists
    /\ fs[ROADMAP_PATH].exists
    /\ \E i \in 1..Len(fs[CHANGELOG_PATH].text) : fs[CHANGELOG_PATH].text[i] = UnreleasedHeading
    /\ AnySearch(fs[ROADMAP_PATH].text, RoadmapPhaseLabel).m
    /\ DateSearch(fs[ROADMAP_PATH].text, RoadmapDateLabel).m

IsHeadingLine(line) ==
    Len(line) >= 3 /\ line[1] \in DOMAIN HashRuns /\ IsWs(line[2])

\* the two-state machine {NoCategory, InCategory(name)} run over the lines
RECURSIVE MachineRun(_)
MachineRun(lines) ==
    IF lines = <<>> THEN [cur |-> None, buckets |-> EmptyItems]
    ELSE LET before == MachineRun(SubSeq(lines, 1, Len(lines) - 1))
             line == RStrip(lines[Len(lines)])
         IN  IF IsHeadingLine(line)
             THEN [before EXCEPT !.cur = SectionOf(LStrip(Drop(line, 1)))]
             ELSE IF BulletMatch(line) /\ before.cur # None
             THEN [before EXCEPT !.buckets[before.cur] = Append(@, line)]
             ELSE before

\* C4: collect_section_items is the two-state machine started in NoCategory:
\* every heading line, of any rank, moves to InCategory(name) when it names one
\* of the six categories and to NoCategory otherwise; a bullet is appended to
\* the current bucket in InCategory and dropped in NoCategory; other lines
\* change nothing.
C4_TwoStateMachine ==
    gpc = "collect"
        => /\ current_section = MachineRun(SubSeq(gunreleased, 1, gidx - 1)).cur
           /\ items = MachineRun(SubSeq(gunreleased, 1, gidx - 1)).buckets

\* the places of the category headings in the rendered output
HeadingPlaces == {i \in 1..Len(goutput) : \E s \in SectionNames : goutput[i] = SectionHeading(s)}

\* the k-th category heading of the output, and the place after its block
PlaceOf(k) == CHOOSE i \in HeadingPlaces : Cardinality({j \in HeadingPlaces : j < i}) = k - 1

EndOf(k) == IF k = Len(SECTIONS) THEN Len(goutput) + 1 ELSE PlaceOf(k + 1)

\* C5: the rendered notes hold the six category headings exactly once each, in
\* the order Added, Changed, Deprecated, Removed, Fixed, Security; under each
\* heading stand exactly the collected bullets of the category in source order,
\* or the single line "- None" when the category collected nothing.
C5_CanonicalSections ==
    gpc \in {"write", "done"} /\ goutput # <<>>
        => /\ Cardinality(HeadingPlaces) = Len(SECTIONS)
           /\ \A k \in 1..Len(SECTIONS) :
                /\ goutput[PlaceOf(k)] = SectionHeading(SECTIONS[k])
                /\ SubSeq(goutput, PlaceOf(k) + 1, EndOf(k) - 1)
                     = (IF items[SECTIONS[k]] = <<>> THEN << NoneLine >>
                        ELSE items[SECTIONS[k]])
                       \o (IF k < Len(SECTIONS) THEN << <<>> >> ELSE <<>>)

\* C5 witness: notes written for a body whose only category is Fixed, with two
\* bullets, one of them the text "- None"
C5_Witness ==
    /\ gpc = "done"
    /\ gresult = 0
    /\ Len(items["Fixed"]) = 2
    /\ items["Fixed"][2] = NoneLine
    /\ items["Added"] = <<>>

\* ---- properties of the validator

\* main has called extract_unreleased
Extracted ==
    /\ vpc \in {"alignment", "lifecycle", "rows", "template", "report", "done"}
    /\ roadmap # <<>>
    /\ changelog # <<>>

\* main is past the loop of validate_plan_lifecycle
PastRows == vpc \in {"template", "report", "done"}

\* the first line of the text that starts with the label
FirstWith(text, label) == text[Min({i \in 1..Len(text) : StartsWith(text[i], label)})]

Has(text, label) == \E i \in 1..Len(text) : StartsWith(text[i], label)

\* the value a "- Label: value" line carries on the line
ValueOn(line, label) == Strip(Drop(line, Len(label)))

\* the block holds the phase line and the date line: the first line bearing
\* each label carries its value, the date a well-formed one, on the line
BlockHasBoth(block) ==
    /\ Has(block, BlockPhaseLabel)
    /\ ValueOn(FirstWith(block, BlockPhaseLabel), BlockPhaseLabel) # <<>>
    /\ Has(block, BlockDateLabel)
    /\ LET rest == LStrip(Drop(FirstWith(block, BlockDateLabel), Len(BlockDateLabel)))
       IN  Len(rest) = 1 /\ IsDate(rest[1])

BlockPhase(block) == ValueOn(FirstWith(block, BlockPhaseLabel), BlockPhaseLabel)

BlockDate(block) == ValueOn(FirstWith(block, BlockDateLabel), BlockDateLabel)

AlignmentKinds ==
    { "CHANGELOG [Unreleased] is missing '### Roadmap Alignment' block",
      "Roadmap Alignment block missing '- Current roadmap phase:'",
      "Roadmap Alignment block missing '- Roadmap last updated:'",
      "Roadmap/Changelog phase mismatch",
      "Roadmap/Changelog last-updated mismatch" }

\* C2: for a Roadmap Alignment block holding the phase line and the date line,
\* validate_roadmap_alignment_block appends exactly one mismatch error per field
\* whose changelog value differs from the roadmap value, and nothing else: none
\* when both agree, the phase error alone or the date error alone when one
\* differs, two separate errors when both differ.
C2_OneMismatchPerField ==
    aligned /\ AlignmentSearch(unreleased).found
            /\ BlockHasBoth(AlignmentSearch(unreleased).body)
        => LET block == AlignmentSearch(unreleased).body
           IN  OfKind(errors, AlignmentKinds)
                 = (IF BlockPhase(block) # roadmap_phase
                    THEN << Err("Roadmap/Changelog phase mismatch",
                                roadmap_phase, BlockPhase(block)) >>
                    ELSE <<>>)
                   \o (IF BlockDate(block) # roadmap_last_updated
                       THEN << Err("Roadmap/Changelog last-updated mismatch",
                                   roadmap_last_updated, BlockDate(block)) >>
                       ELSE <<>>)

\* C2 witness: a checked block whose phase and date both differ from the roadmap
C2_Witness ==
    /\ aligned
    /\ AlignmentSearch(unreleased).found
    /\ BlockHasBoth(AlignmentSearch(unreleased).body)
    /\ BlockPhase(AlignmentSearch(unreleased).body) # roadmap_phase
    /\ BlockDate(AlignmentSearch(unreleased).body) # roadmap_last_updated
    /\ Len(errors) = 2

\* C3: after the loop over a non-empty table, the aggregate error "should
\* include at least one Superseded entry" is present exactly once when no row
\* has status Superseded and absent when some row has it.
C3_AggregateError ==
    PastRows /\ rows # <<>>
        => Count(errors, "PLAN_LIFECYCLE.md should include at least one Superseded entry")
             = (IF \E k \in 1..Len(rows) : rows[k][2] = <<"Superseded">> THEN 0 ELSE 1)

\* the roadmap declares a metadata field: a line with the label and a value
Declares(text, label) ==
    \E i \in 1..Len(text) : StartsWith(text[i], label) /\ ValueOn(text[i], label) # <<>>

\* C6: when the roadmap declares both metadata fields and the changelog has an
\* Unreleased section, every missing piece of the echo is its own error: an
\* Unreleased body, empty or not, without the Roadmap Alignment sub-block gives
\* the missing-block error, and in a present sub-block a missing phase line and
\* a missing date line each give their error.
C6_AbsenceReported ==
    /\ vpc = "done"
    /\ fs[ROADMAP_PATH].exists
    /\ Declares(fs[ROADMAP_PATH].text, RoadmapPhaseLabel)
    /\ DateSearch(fs[ROADMAP_PATH].text, RoadmapDateLabel).m
    /\ fs[CHANGELOG_PATH].exists
    /\ UnreleasedSearch(fs[CHANGELOG_PATH].text).found
    => LET body == UnreleasedSearch(fs[CHANGELOG_PATH].text).body
           block == AlignmentSearch(body)
       IN  /\ ~block.found
                => Count(errors, "CHANGELOG [Unreleased] is missing '### Roadmap Alignment' block") = 1
           /\ block.found /\ ~Has(block.body, BlockPhaseLabel)
                => Count(errors, "Roadmap Alignment block missing '- Current roadmap phase:'") = 1
           /\ block.found /\ ~Has(block.body, BlockDateLabel)
                => Count(errors, "Roadmap Alignment block missing '- Roadmap last updated:'") = 1

\* the row of C7: status Superseded, an existing plan file, and a Superseded-By
\* cell naming an existing target file
SupersededRow(row) ==
    /\ row[2] = <<"Superseded">>
    /\ ~NoPath(parse_code_path(row[1]))
    /\ Exists(PlansDir \o parse_code_path(row[1]).val)
    /\ ~NoPath(parse_code_path(row[3]))
    /\ Exists(PlansDir \o parse_code_path(row[3]).val)

SourceOf(row) == parse_code_path(row[1]).val

TargetOf(row) == parse_code_path(row[3]).val

Unreferenced(row) ==
    Err("Superseded source missing explicit target reference", TargetOf(row), SourceOf(row))

\* the loop is about to process a row of C7
AtSupersededRow == vpc = "rows" /\ ridx <= Len(rows) /\ SupersededRow(rows[ridx])

RowKinds ==
    { "Invalid plan path cell in PLAN_LIFECYCLE.md",
      "Invalid lifecycle status",
      "Lifecycle entry references missing file",
      "Superseded plan missing lifecycle marker",
      "Superseded plan must define 'Superseded By' target",
      "Superseded target does not exist",
      "Superseded source missing explicit target reference",
      "Active plan missing lifecycle marker" }

\* the errors of the table made of this row alone: those of a run of the loop
\* from an empty list over a one-row table
AloneErrors(row) == RowResult(row).errs

\* the errors of the first n rows, each taken alone, in row order
RECURSIVE AloneUpTo(_)
AloneUpTo(n) == IF n = 0 THEN <<>> ELSE AloneUpTo(n - 1) \o AloneErrors(rows[n])

\* C8: the per-row errors validate_plan_lifecycle appends are the concatenation,
\* in row order, of the errors each row gives when it is the only row; an error
\* of one row changes nothing for a later row, and no error appended earlier is
\* removed or rewritten.
C8_Accumulate ==
    /\ [](vpc = "rows" => OfKind(errors, RowKinds) = AloneUpTo(ridx - 1))
    /\ [](PastRows /\ rows # <<>> => OfKind(errors, RowKinds) = AloneUpTo(Len(rows)))
    /\ [][Len(errors') >= Len(errors) /\ SubSeq(errors', 1, Len(errors)) = errors]_vars

\* C8 witness: the loop has ended on a two-row table whose first row has an
\* invalid plan path cell and whose second row gave errors of its own
C8_Witness ==
    /\ PastRows
    /\ Len(rows) = 2
    /\ NoPath(parse_code_path(rows[1][1]))
    /\ AloneErrors(rows[2]) # <<>>
    /\ Len(OfKind(errors, RowKinds)) >= 2

\* a cell made of dash characters only
AllDashes(cell) == cell # <<>> /\ \A k \in 1..Len(cell) : cell[k] \in DashTokens

\* a candidate line is rejected: fewer than 4 cells, the header label in its
\* first cell, or every cell made of dashes
Rejected(cells) ==
    \/ Len(cells) < 4
    \/ cells[1] = <<"Plan">>
    \/ \A k \in 1..Len(cells) : AllDashes(cells[k])

\* the pipe-prefixed lines that are not rejected, in document order
RECURSIVE YieldedRows(_)
YieldedRows(markdown) ==
    IF markdown = <<>> THEN <<>>
    ELSE LET line == Strip(Head(markdown))
         IN  (IF line # <<>> /\ line[1] = Bar /\ ~Rejected(Cells(line))
              THEN << SubSeq(Cells(line), 1, 4) >> ELSE <<>>)
             \o YieldedRows(Tail(markdown))

\* C9: parse_table_rows yields, in document order, exactly the pipe-prefixed
\* lines that are not rejected, a line being rejected iff it has fewer than 4
\* cells, its first cell is "Plan", or all its cells are dashes; a data row is
\* not dropped for having "-" as its first cell.
C9_RowsYielded ==
    vpc \in {"rows", "template", "report", "done"} /\ read_text(PLAN_LIFECYCLE_PATH) # <<>>
        => rows = YieldedRows(read_text(PLAN_LIFECYCLE_PATH))

\* the body of the section under the first line equal to the heading: up to
\* the next heading line of the same number of "#" or fewer, or the end
SectionBody(text, heading) ==
    LET i == Min({k \in 1..Len(text) : text[k] = heading})
        stops == {j \in (i + 1)..Len(text) :
                     /\ Len(text[j]) >= 2
                     /\ text[j][1] \in DOMAIN HashRuns
                     /\ IsWs(text[j][2])
                     /\ HashRuns[text[j][1]] <= HashRuns[heading[1]]}
    IN  SubSeq(text, i + 1, (IF stops = {} THEN Len(text) + 1 ELSE Min(stops)) - 1)

\* C10: the body extracted for the Unreleased section, and for the Roadmap
\* Alignment sub-block in it, starts after the first matching heading line and
\* ends before the next heading of equal or higher rank, or at the end of text.
C10_BodyEndsAtHeading ==
    Extracted /\ UnreleasedSearch(changelog).found
        => /\ unreleased = SectionBody(changelog, UnreleasedHeading)
           /\ AlignmentSearch(unreleased).found
                => AlignmentSearch(unreleased).body = SectionBody(unreleased, AlignmentHeading)

\* ---- C11

\* a required file that exists and holds no text
EmptyFile(path) == Exists(path) /\ fs[path].text = <<>>

RequiredPaths ==
    {ROADMAP_PATH, CHANGELOG_PATH, PLAN_LIFECYCLE_PATH, RELEASE_TEMPLATE_PATH}

\* the roadmap on disk declares both metadata fields
RoadmapDeclaresBoth ==
    /\ Exists(ROADMAP_PATH)
    /\ parse_roadmap_metadata(fs[ROADMAP_PATH].text).phase # <<>>
    /\ parse_roadmap_metadata(fs[ROADMAP_PATH].text).date # <<>>

\* the registry on disk has at least one table row
RegistryHasRow ==
    /\ Exists(PLAN_LIFECYCLE_PATH)
    /\ parse_table_rows(fs[PLAN_LIFECYCLE_PATH].text) # <<>>

\* the template on disk holds every required heading
TemplateComplete ==
    /\ Exists(RELEASE_TEMPLATE_PATH)
    /\ \A k \in 1..Len(REQUIRED_TEMPLATE_HEADINGS) :
          InText(REQUIRED_TEMPLATE_HEADINGS[k], fs[RELEASE_TEMPLATE_PATH].text)

\* C11: whenever main returns 0, the roadmap declared both metadata fields and
\* the alignment block was checked, the lifecycle registry had at least one
\* row and the template held all eight required headings; and a run over a
\* required file that exists but is empty ends with a non-empty error list.
C11_NoSilentSkip ==
    vpc = "done" =>
        /\ vresult = 0 =>
              RoadmapDeclaresBoth /\ aligned /\ RegistryHasRow /\ TemplateComplete
        /\ (\E path \in RequiredPaths : EmptyFile(path)) => errors # <<>>

====
